---- MODULE Spec2Model ----
(***************************************************************************)
(* A model of the DateFns namespace of src/main.ts: toDate, toInteger,     *)
(* the difference functions, isWithinInterval, getDaysInMonth,             *)
(* startOfMonth, endOfMonth and addMonths, over a heap of Date objects.    *)
(*                                                                         *)
(* A JavaScript Date object is a heap cell holding its time value.  A time *)
(* value is NaN or an integral number of milliseconds since the epoch; it  *)
(* is carried as the pair (day, ms) = (Day(t), TimeWithinDay(t)) of        *)
(* ECMA-262, so that t = day * msPerDay + ms and every quantity stays     *)
(* within 32-bit integers.  Local time is that of the host's time zone.   *)
(* The other numbers of the program (month amounts, calendar fields,       *)
(* millisecond differences) are carried as NaN, +Infinity, -Infinity or a  *)
(* finite rational n/d.                                                    *)
(***************************************************************************)
EXTENDS Integers, Sequences, FiniteSets

VARIABLES
    heap,   \* the Date objects: heap[i] is the time value of object i
    zone,   \* the host's local time zone: its offset and whether it has DST
    op,     \* the exported function called last ("none" before any call)
    args,   \* the arguments of that call
    ret     \* what that call returned or threw

vars == <<heap, zone, op, args, ret>>

----------------------------------------------------------------------------
(* JavaScript numbers *)

NaN == [k |-> "nan", n |-> 0, d |-> 1]
PInf == [k |-> "pinf", n |-> 0, d |-> 1]
NInf == [k |-> "ninf", n |-> 0, d |-> 1]
Frac(n, d) == [k |-> "fin", n |-> n, d |-> d]
Fin(n) == Frac(n, 1)

IsFinite(x) == x.k = "fin"

\* x < y on numbers; every comparison with NaN is false
NumLt(x, y) ==
    CASE x.k = "nan" \/ y.k = "nan" -> FALSE
      [] x.k = "pinf" -> FALSE
      [] y.k = "ninf" -> FALSE
      [] x.k = "ninf" -> TRUE
      [] y.k = "pinf" -> TRUE
      [] OTHER -> x.n * y.d < y.n * x.d

\* x >= y on numbers
NumGe(x, y) ==
    CASE x.k = "nan" \/ y.k = "nan" -> FALSE
      [] x.k = "pinf" -> TRUE
      [] y.k = "ninf" -> TRUE
      [] x.k = "ninf" -> FALSE
      [] y.k = "pinf" -> FALSE
      [] OTHER -> x.n * y.d >= y.n * x.d

\* x + y on numbers
NumAdd(x, y) ==
    CASE x.k = "nan" \/ y.k = "nan" -> NaN
      [] x.k = "pinf" -> IF y.k = "ninf" THEN NaN ELSE PInf
      [] x.k = "ninf" -> IF y.k = "pinf" THEN NaN ELSE NInf
      [] y.k # "fin" -> y
      [] OTHER -> IF x.d = y.d THEN Frac(x.n + y.n, x.d)
                  ELSE Frac(x.n * y.d + y.n * x.d, x.d * y.d)

\* x / c for a positive integer constant c
NumDivBy(x, c) == IF IsFinite(x) THEN Frac(x.n, x.d * c) ELSE x

MathFloor(x) == IF IsFinite(x) THEN Fin(x.n \div x.d) ELSE x
MathCeil(x) == IF IsFinite(x) THEN Fin(-((-x.n) \div x.d)) ELSE x

\* the global isNaN of a number
isNaN(x) == x.k = "nan"

\* ToBoolean of a number: false for 0 (and -0) and for NaN
Truthy(x) == ~(x.k = "nan" \/ (x.k = "fin" /\ x.n = 0))

----------------------------------------------------------------------------
(* Time values and the date algorithms of ECMA-262 the code calls *)

MsPerDay == 24 * 60 * 60 * 1000
MaxTimeDay == 100 * 1000 * 1000     \* a time value is at most 8.64e15 ms = 1e8 days

NaNTime == [nan |-> TRUE, day |-> 0, ms |-> 0]
Time(day, ms) == [nan |-> FALSE, day |-> day, ms |-> ms]

\* the time value t + delta, for |delta| < msPerDay
TimeShift(t, delta) ==
    Time(t.day + ((t.ms + delta) \div MsPerDay), (t.ms + delta) % MsPerDay)

\* TimeClip: NaN beyond +-8.64e15 ms
TimeClip(t) ==
    IF t.nan THEN NaNTime
    ELSE IF t.day < -MaxTimeDay \/ t.day > MaxTimeDay
            \/ (t.day = MaxTimeDay /\ t.ms > 0)
         THEN NaNTime
         ELSE t

DaysInYear(y) ==
    IF y % 4 # 0 THEN 365
    ELSE IF y % 100 # 0 THEN 366
    ELSE IF y % 400 # 0 THEN 365
    ELSE 366

DayFromYear(y) ==
    365 * (y - 1970) + ((y - 1969) \div 4) - ((y - 1901) \div 100)
        + ((y - 1601) \div 400)

\* the largest y with DayFromYear(y) <= day
YearFromDay(day) ==
    LET est == 1970 + (day \div 366)
        slack == (IF day < 0 THEN -day ELSE day) \div 100000
    IN  CHOOSE y \in (est - 2 - slack)..(est + 2 + slack) :
            DayFromYear(y) <= day /\ day < DayFromYear(y + 1)

InLeapYear(day) == IF DaysInYear(YearFromDay(day)) = 366 THEN 1 ELSE 0

DayWithinYear(day) == day - DayFromYear(YearFromDay(day))

\* the day within a year on which month m (0..11) starts; 12 gives the length
MonthStart(m, leap) ==
    CASE m = 0 -> 0
      [] m = 1 -> 31
      [] m = 2 -> 59 + leap
      [] m = 3 -> 90 + leap
      [] m = 4 -> 120 + leap
      [] m = 5 -> 151 + leap
      [] m = 6 -> 181 + leap
      [] m = 7 -> 212 + leap
      [] m = 8 -> 243 + leap
      [] m = 9 -> 273 + leap
      [] m = 10 -> 304 + leap
      [] m = 11 -> 334 + leap
      [] OTHER -> 365 + leap

MonthFromDay(day) ==
    LET dwy == DayWithinYear(day)
        leap == InLeapYear(day)
    IN  CHOOSE m \in 0..11 :
            MonthStart(m, leap) <= dwy /\ dwy < MonthStart(m + 1, leap)

DateFromDay(day) ==
    DayWithinYear(day) - MonthStart(MonthFromDay(day), InLeapYear(day)) + 1

\* the day number of the last Sunday of month m of year y (day 0 is a Thursday)
LastSunday(y, m) ==
    LET leap == IF DaysInYear(y) = 366 THEN 1 ELSE 0
        last == DayFromYear(y) + MonthStart(m + 1, leap) - 1
    IN  last - ((last + 4) % 7)

HourMs == 60 * 60 * 1000

\* daylight saving time is in force at time value t: from 01:00 UTC of the
\* last Sunday of March to 01:00 UTC of the last Sunday of October
InDST(t) ==
    LET y == YearFromDay(t.day)
        from == LastSunday(y, 2)
        to == LastSunday(y, 9)
    IN  /\ (from < t.day \/ (from = t.day /\ t.ms >= HourMs))
        /\ (t.day < to \/ (t.day = to /\ t.ms < HourMs))

\* LocalTime(t): the local time of time value t
LocalTime(t) ==
    TimeShift(t, zone.std + (IF zone.dst /\ InDST(t) THEN HourMs ELSE 0))

\* UTC(t): the time value of local time t; a local time that a transition
\* skips or repeats is read with the offset in force before the transition
UTC(t) ==
    LET summer == TimeShift(t, -(zone.std + HourMs))
    IN  IF zone.dst /\ InDST(summer) THEN summer ELSE TimeShift(t, -zone.std)

\* MakeDay(year, month, date) on numbers: a day number, or NaN
MakeDay(year, month, date) ==
    IF ~(IsFinite(year) /\ IsFinite(month) /\ IsFinite(date)) THEN NaN
    ELSE LET y == year.n \div year.d
             m == month.n \div month.d
             dt == date.n \div date.d
             ym == y + (m \div 12)
             mn == m % 12
             leap == IF DaysInYear(ym) = 366 THEN 1 ELSE 0
         IN  Fin(DayFromYear(ym) + MonthStart(mn, leap) + dt - 1)

\* MakeTime(hour, min, sec, ms) for the in-range fields the code passes
MakeTime(h, mi, s, milli) == ((h * 60 + mi) * 60 + s) * 1000 + milli

\* MakeDate(day, time): a time value from a day number and a time within day
MakeDate(day, time) ==
    IF ~IsFinite(day) THEN NaNTime
    ELSE IF day.n < -MaxTimeDay - 1 \/ day.n > MaxTimeDay + 1 THEN NaNTime
    ELSE Time(day.n, time)

----------------------------------------------------------------------------
(* Date.prototype methods, on the time value t of the receiver *)

getFullYear(t) == IF t.nan THEN NaN ELSE Fin(YearFromDay(LocalTime(t).day))
getMonth(t) == IF t.nan THEN NaN ELSE Fin(MonthFromDay(LocalTime(t).day))
getDate(t) == IF t.nan THEN NaN ELSE Fin(DateFromDay(LocalTime(t).day))
getTime(t) == t

\* the new time value of the receiver after setMonth(month, date)
setMonth(t, month, date) ==
    IF t.nan THEN NaNTime
    ELSE LET lt == LocalTime(t)
             nd == MakeDate(MakeDay(Fin(YearFromDay(lt.day)), month, date), lt.ms)
         IN  IF nd.nan THEN NaNTime ELSE TimeClip(UTC(nd))

\* after setFullYear(year, month, date): an invalid receiver counts as +0
setFullYear(t, year, month, date) ==
    LET lt == IF t.nan THEN Time(0, 0) ELSE LocalTime(t)
        nd == MakeDate(MakeDay(year, month, date), lt.ms)
    IN  IF nd.nan THEN NaNTime ELSE TimeClip(UTC(nd))

\* after setDate(date)
setDate(t, date) ==
    IF t.nan THEN NaNTime
    ELSE LET lt == LocalTime(t)
             nd == MakeDate(MakeDay(Fin(YearFromDay(lt.day)),
                                    Fin(MonthFromDay(lt.day)), date), lt.ms)
         IN  IF nd.nan THEN NaNTime ELSE TimeClip(UTC(nd))

\* after setHours(h, mi, s, milli)
setHours(t, h, mi, s, milli) ==
    IF t.nan THEN NaNTime
    ELSE LET lt == LocalTime(t)
         IN  TimeClip(UTC(Time(lt.day, MakeTime(h, mi, s, milli))))

----------------------------------------------------------------------------
(* JavaScript values passed to and returned by the functions *)

DateRef(i) == [t |-> "Date", ref |-> i]      \* a reference to Date object i
NumTime(tv) == [t |-> "number", time |-> tv] \* a number used as a timestamp
NumVal(x) == [t |-> "number", num |-> x]     \* a number used as an amount
Str(s) == [t |-> "string", s |-> s]
Bool(b) == [t |-> "boolean", b |-> b]
Null == [t |-> "null"]
Undefined == [t |-> "undefined"]
Interval(start, end) == [t |-> "object", start |-> start, end |-> end]
Throw(err) == [t |-> "throw", err |-> err]

\* new Date(value) leaves the heap h with one more object
Alloc(h, tv) == [h |-> Append(h, tv), ref |-> Len(h) + 1]

\* Number(value): the primitive conversion of the values the model passes
ToNumber(v) ==
    CASE v.t = "number" -> v.num
      [] v.t = "undefined" -> NaN
      [] v.t = "null" -> Fin(0)
      [] v.t = "boolean" -> IF v.b THEN Fin(1) ELSE Fin(0)
      [] v.t = "string" ->
            (CASE v.s = "" -> Fin(0)
               [] v.s = "2.5" -> Frac(5, 2)
               [] v.s = "-7" -> Fin(-7)
               [] v.s = "Infinity" -> PInf
               [] OTHER -> NaN)
      [] OTHER -> NaN

----------------------------------------------------------------------------
(* src/main.ts *)

MILLISECONDS_IN_MINUTE == 60000

\* TRUE when requiredArgs throws its TypeError
requiredArgs(required, nargs) == nargs < required

\* toDate: the heap after the call and the reference to the Date it returns
\* toDate handing back the caller's Date object instead of a clone
toDate_noClone(h, argument) ==
    IF argument.t = "Date" THEN [h |-> h, ref |-> argument.ref]
    ELSE IF argument.t = "number" THEN Alloc(h, TimeClip(argument.time))
    ELSE Alloc(h, NaNTime)

toDate(h, argument) ==
    IF argument.t = "Date" THEN Alloc(h, getTime(h[argument.ref]))
    ELSE IF argument.t = "number" THEN Alloc(h, TimeClip(argument.time))
    ELSE Alloc(h, NaNTime)

\* toInteger rounding every fraction down
toInteger_floor(dirtyNumber) ==
    IF dirtyNumber.t = "null" \/ dirtyNumber.t = "boolean" THEN NaN
    ELSE LET number == ToNumber(dirtyNumber)
         IN  IF isNaN(number) THEN number ELSE MathFloor(number)

\* toInteger without the test for null, true and false
toInteger_noBooleanCheck(dirtyNumber) ==
    LET number == ToNumber(dirtyNumber)
    IN  IF isNaN(number) THEN number
        ELSE IF NumLt(number, Fin(0)) THEN MathCeil(number)
        ELSE MathFloor(number)

toInteger(dirtyNumber) ==
    IF dirtyNumber.t = "null" \/ dirtyNumber.t = "boolean" THEN NaN
    ELSE LET number == ToNumber(dirtyNumber)
         IN  IF isNaN(number) THEN number
             ELSE IF NumLt(number, Fin(0)) THEN MathCeil(number)
             ELSE MathFloor(number)

\* a - b on time values, as a number of milliseconds
TimeSub(a, b) ==
    IF a.nan \/ b.nan THEN NaN
    ELSE Fin((a.day - b.day) * MsPerDay + (a.ms - b.ms))

\* a <= b on time values; false when either is NaN
TimeLe(a, b) ==
    ~a.nan /\ ~b.nan /\ (a.day < b.day \/ (a.day = b.day /\ a.ms <= b.ms))

differenceInMilliseconds(h, dirtyDateLeft, dirtyDateRight) ==
    LET l == toDate(h, dirtyDateLeft)
        r == toDate(l.h, dirtyDateRight)
    IN  [h |-> r.h,
         v |-> NumVal(TimeSub(getTime(r.h[l.ref]), getTime(r.h[r.ref])))]

\* differenceInMinutes rounding down whatever the sign
differenceInMinutes_floor(h, dirtyDateLeft, dirtyDateRight) ==
    LET ms == differenceInMilliseconds(h, dirtyDateLeft, dirtyDateRight)
        diff == NumDivBy(ms.v.num, MILLISECONDS_IN_MINUTE)
    IN  [h |-> ms.h, v |-> NumVal(MathFloor(diff))]

differenceInMinutes(h, dirtyDateLeft, dirtyDateRight) ==
    LET ms == differenceInMilliseconds(h, dirtyDateLeft, dirtyDateRight)
        diff == NumDivBy(ms.v.num, MILLISECONDS_IN_MINUTE)
    IN  [h |-> ms.h,
         v |-> NumVal(IF NumLt(Fin(0), diff) THEN MathFloor(diff)
                      ELSE MathCeil(diff))]

\* isWithinInterval throwing on startTime > endTime only
isWithinInterval_startAfterEnd(h, dirtyDate, dirtyInterval) ==
    LET start == IF dirtyInterval.t = "object" THEN dirtyInterval.start
                 ELSE Undefined
        end == IF dirtyInterval.t = "object" THEN dirtyInterval.end
               ELSE Undefined
        d == toDate(h, dirtyDate)
        s == toDate(d.h, start)
        e == toDate(s.h, end)
        time == getTime(e.h[d.ref])
        startTime == getTime(e.h[s.ref])
        endTime == getTime(e.h[e.ref])
    IN  IF TimeLe(endTime, startTime) /\ endTime # startTime
        THEN [h |-> e.h, v |-> Throw("RangeError")]
        ELSE [h |-> e.h,
              v |-> Bool(TimeLe(startTime, time) /\ TimeLe(time, endTime))]

\* isWithinInterval leaving the end of the interval out
isWithinInterval_exclusive(h, dirtyDate, dirtyInterval) ==
    LET start == IF dirtyInterval.t = "object" THEN dirtyInterval.start
                 ELSE Undefined
        end == IF dirtyInterval.t = "object" THEN dirtyInterval.end
               ELSE Undefined
        d == toDate(h, dirtyDate)
        s == toDate(d.h, start)
        e == toDate(s.h, end)
        time == getTime(e.h[d.ref])
        startTime == getTime(e.h[s.ref])
        endTime == getTime(e.h[e.ref])
    IN  IF ~TimeLe(startTime, endTime)
        THEN [h |-> e.h, v |-> Throw("RangeError")]
        ELSE [h |-> e.h,
              v |-> Bool(TimeLe(startTime, time) /\ TimeLe(time, endTime)
                         /\ time # endTime)]

isWithinInterval(h, dirtyDate, dirtyInterval) ==
    LET start == IF dirtyInterval.t = "object" THEN dirtyInterval.start
                 ELSE Undefined
        end == IF dirtyInterval.t = "object" THEN dirtyInterval.end
               ELSE Undefined
        d == toDate(h, dirtyDate)
        s == toDate(d.h, start)
        e == toDate(s.h, end)
        time == getTime(e.h[d.ref])
        startTime == getTime(e.h[s.ref])
        endTime == getTime(e.h[e.ref])
    IN  IF ~TimeLe(startTime, endTime)
        THEN [h |-> e.h, v |-> Throw("RangeError")]
        ELSE [h |-> e.h,
              v |-> Bool(TimeLe(startTime, time) /\ TimeLe(time, endTime))]

\* getDaysInMonth taking day 0 of the date's own month
getDaysInMonth_sameMonth(h, dirtyDate) ==
    LET d == toDate(h, dirtyDate)
        year == getFullYear(d.h[d.ref])
        monthIndex == getMonth(d.h[d.ref])
        l == Alloc(d.h, Time(0, 0))
        h1 == [l.h EXCEPT ![l.ref] = setFullYear(@, year, monthIndex, Fin(0))]
        h2 == [h1 EXCEPT ![l.ref] = setHours(@, 0, 0, 0, 0)]
    IN  [h |-> h2, v |-> NumVal(getDate(h2[l.ref]))]

getDaysInMonth(h, dirtyDate) ==
    LET d == toDate(h, dirtyDate)
        year == getFullYear(d.h[d.ref])
        monthIndex == getMonth(d.h[d.ref])
        l == Alloc(d.h, Time(0, 0))
        h1 == [l.h EXCEPT ![l.ref] =
                  setFullYear(@, year, NumAdd(monthIndex, Fin(1)), Fin(0))]
        h2 == [h1 EXCEPT ![l.ref] = setHours(@, 0, 0, 0, 0)]
    IN  [h |-> h2, v |-> NumVal(getDate(h2[l.ref]))]

startOfMonth(h, dirtyDate) ==
    LET d == toDate(h, dirtyDate)
        h1 == [d.h EXCEPT ![d.ref] = setDate(@, Fin(1))]
        h2 == [h1 EXCEPT ![d.ref] = setHours(@, 0, 0, 0, 0)]
    IN  [h |-> h2, v |-> DateRef(d.ref)]

\* endOfMonth setting the next month and leaving the day as it is
endOfMonth_keepDay(h, dirtyDate) ==
    LET d == toDate(h, dirtyDate)
        month == getMonth(d.h[d.ref])
        h1 == [d.h EXCEPT ![d.ref] =
                  setFullYear(@, getFullYear(d.h[d.ref]),
                              NumAdd(month, Fin(1)), getDate(d.h[d.ref]))]
        h2 == [h1 EXCEPT ![d.ref] = setHours(@, 23, 59, 59, 999)]
    IN  [h |-> h2, v |-> DateRef(d.ref)]

endOfMonth(h, dirtyDate) ==
    LET d == toDate(h, dirtyDate)
        month == getMonth(d.h[d.ref])
        h1 == [d.h EXCEPT ![d.ref] =
                  setFullYear(@, getFullYear(d.h[d.ref]),
                              NumAdd(month, Fin(1)), Fin(0))]
        h2 == [h1 EXCEPT ![d.ref] = setHours(@, 23, 59, 59, 999)]
    IN  [h |-> h2, v |-> DateRef(d.ref)]

\* addMonths without the return for a zero amount
addMonths_noZeroReturn(h, dirtyDate, dirtyAmount) ==
    LET d == toDate(h, dirtyDate)
        amount == toInteger(dirtyAmount)
    IN  IF isNaN(amount)
        THEN LET r == Alloc(d.h, NaNTime) IN [h |-> r.h, v |-> DateRef(r.ref)]
        ELSE LET dayOfMonth == getDate(d.h[d.ref])
                 e == Alloc(d.h, getTime(d.h[d.ref]))
                 h1 == [e.h EXCEPT ![e.ref] =
                           setMonth(@, NumAdd(NumAdd(getMonth(e.h[d.ref]), amount),
                                              Fin(1)), Fin(0))]
                 daysInMonth == getDate(h1[e.ref])
             IN  IF NumGe(dayOfMonth, daysInMonth)
                 THEN [h |-> h1, v |-> DateRef(e.ref)]
                 ELSE [h |-> [h1 EXCEPT ![d.ref] =
                                 setFullYear(@, getFullYear(h1[e.ref]),
                                             getMonth(h1[e.ref]), dayOfMonth)],
                       v |-> DateRef(d.ref)]

\* addMonths without the test for a NaN amount
addMonths_noNaNCheck(h, dirtyDate, dirtyAmount) ==
    LET d == toDate(h, dirtyDate)
        amount == toInteger(dirtyAmount)
    IN  IF ~Truthy(amount)
        THEN [h |-> d.h, v |-> DateRef(d.ref)]
        ELSE LET dayOfMonth == getDate(d.h[d.ref])
                 e == Alloc(d.h, getTime(d.h[d.ref]))
                 h1 == [e.h EXCEPT ![e.ref] =
                           setMonth(@, NumAdd(NumAdd(getMonth(e.h[d.ref]), amount),
                                              Fin(1)), Fin(0))]
                 daysInMonth == getDate(h1[e.ref])
             IN  IF NumGe(dayOfMonth, daysInMonth)
                 THEN [h |-> h1, v |-> DateRef(e.ref)]
                 ELSE [h |-> [h1 EXCEPT ![d.ref] =
                                 setFullYear(@, getFullYear(h1[e.ref]),
                                             getMonth(h1[e.ref]), dayOfMonth)],
                       v |-> DateRef(d.ref)]

\* addMonths setting the month and leaving the day to overflow
addMonths_overflow(h, dirtyDate, dirtyAmount) ==
    LET d == toDate(h, dirtyDate)
        amount == toInteger(dirtyAmount)
    IN  IF isNaN(amount)
        THEN LET r == Alloc(d.h, NaNTime) IN [h |-> r.h, v |-> DateRef(r.ref)]
        ELSE IF ~Truthy(amount)
        THEN [h |-> d.h, v |-> DateRef(d.ref)]
        ELSE [h |-> [d.h EXCEPT ![d.ref] =
                        setMonth(@, NumAdd(getMonth(d.h[d.ref]), amount),
                                 getDate(d.h[d.ref]))],
              v |-> DateRef(d.ref)]

addMonths(h, dirtyDate, dirtyAmount) ==
    LET d == toDate(h, dirtyDate)
        amount == toInteger(dirtyAmount)
    IN  IF isNaN(amount)
        THEN LET r == Alloc(d.h, NaNTime) IN [h |-> r.h, v |-> DateRef(r.ref)]
        ELSE IF ~Truthy(amount)
        THEN [h |-> d.h, v |-> DateRef(d.ref)]
        ELSE LET dayOfMonth == getDate(d.h[d.ref])
                 e == Alloc(d.h, getTime(d.h[d.ref]))
                 h1 == [e.h EXCEPT ![e.ref] =
                           setMonth(@, NumAdd(NumAdd(getMonth(e.h[d.ref]), amount),
                                              Fin(1)), Fin(0))]
                 daysInMonth == getDate(h1[e.ref])
             IN  IF NumGe(dayOfMonth, daysInMonth)
                 THEN [h |-> h1, v |-> DateRef(e.ref)]
                 ELSE [h |-> [h1 EXCEPT ![d.ref] =
                                 setFullYear(@, getFullYear(h1[e.ref]),
                                             getMonth(h1[e.ref]), dayOfMonth)],
                       v |-> DateRef(d.ref)]

----------------------------------------------------------------------------
(* The callers: the values they hold and pass *)

NCaller == 2        \* Date objects the caller holds: heap[1..NCaller]
MaxAmount == 25     \* integer month amounts range over -MaxAmount..MaxAmount
MaxDayGap == 2      \* the instants compared lie at most this many days apart

\* the hosts: UTC-5 without daylight saving time and UTC+1 with it
Zones == {[std |-> -5 * HourMs, dst |-> FALSE], [std |-> HourMs, dst |-> TRUE]}

\* new Date(year, monthIndex, day, hours, minutes, seconds, ms), local time
NewDate(y, m, d, h, mi, s, milli) ==
    TimeClip(UTC(MakeDate(MakeDay(Fin(y), Fin(m), Fin(d)),
                          MakeTime(h, mi, s, milli))))

\* 31 January 2000 10:01:59, a valid date the caller holds
HeldDate == NewDate(2000, 0, 31, 10, 1, 59, 0)

\* the caller's objects: valid dates half a minute apart and invalid dates
CallerDate(i) ==
    IF i % 2 = 0 THEN NaNTime ELSE TimeShift(HeldDate, (i - 1) * 30000)

\* the heap at the start of a call: the caller's objects
CallerHeap == SubSeq(heap, 1, NCaller)

Held == {DateRef(i) : i \in 1..NCaller}
NotDates == {NumTime(NaNTime), Str("2014-02-11"), Undefined}

\* calendar dates given as timestamps
Years == {1900, 1968, 1999}
Grid ==
    {NumTime(NewDate(y, m, d, c[1], c[2], c[3], c[4])) :
        y \in Years, m \in 0..11, d \in {1, 28, 29, 30, 31},
        c \in {<<2, 30, 0, 0>>, <<23, 59, 59, 999>>}}
\* and an hour after 02:30: the second 02:30 of a day that repeats the hour
GridDates ==
    {g \in Grid \cup {NumTime(TimeShift(g.time, HourMs)) :
                          g \in {x \in Grid : LocalTime(x.time).ms < 12 * HourMs}} :
        getDate(g.time).n \in {1, 28, 29, 30, 31}}

\* instants around the held date, milliseconds and minutes apart
Deltas == {-119000, -60001, -60000, -59999, -1, 0, 1, 59999, 60000, 721000}
Near == {NumTime(Time(HeldDate.day + k + ((HeldDate.ms + dl) \div MsPerDay),
                      (HeldDate.ms + dl) % MsPerDay)) :
            k \in {0, MaxDayGap}, dl \in Deltas}
Edge == {NumTime(TimeShift(HeldDate, dl)) : dl \in {-1, 0, 1, 60000}}

\* the amounts every date is tried with, and those the few are tried with
GridAmounts ==
    {NumVal(Fin(n)) : n \in -MaxAmount..MaxAmount}
    \cup {NumVal(Frac(1, 2)), NumVal(Frac(-1, 2)), NumVal(Frac(-999, 1000))}
Amounts ==
    GridAmounts
    \cup {NumVal(Frac(5, 2)), NumVal(Frac(-5, 2)),
          NumVal(NaN), NumVal(PInf), NumVal(NInf),
          Null, Undefined, Bool(TRUE), Bool(FALSE),
          Str("abc"), Str("2.5"), Str("-7"), Str(""), Str("Infinity")}

----------------------------------------------------------------------------
(* The state machine: one action per exported function *)

Init ==
    /\ zone \in Zones
    /\ heap = [i \in 1..NCaller |-> CallerDate(i)]
    /\ op = "none"
    /\ args = <<>>
    /\ ret = Undefined

\* a call runs to completion from the idle state and leaves its result
Return(name, a, r) ==
    /\ heap' = r.h
    /\ op' = name
    /\ args' = a
    /\ ret' = r.v
    /\ UNCHANGED zone

DifferenceInMilliseconds ==
    /\ op = "none"
    /\ \E l \in Held \cup NotDates \cup Near, r \in Held \cup NotDates \cup Near :
        /\ ~requiredArgs(2, Len(<<l, r>>))
        /\ Return("differenceInMilliseconds", <<l, r>>,
                  differenceInMilliseconds(CallerHeap, l, r))

DifferenceInMinutes ==
    /\ op = "none"
    /\ \E l \in Held \cup NotDates \cup Near, r \in Held \cup NotDates \cup Near :
        /\ ~requiredArgs(2, Len(<<l, r>>))
        /\ Return("differenceInMinutes", <<l, r>>,
                  differenceInMinutes(CallerHeap, l, r))

IsWithinInterval ==
    /\ op = "none"
    /\ \E d \in Held \cup NotDates \cup Edge :
        \E i \in {Interval(s, e) : s, e \in Held \cup NotDates \cup Edge}
                    \cup {Null, Undefined} :
            /\ ~requiredArgs(2, Len(<<d, i>>))
            /\ Return("isWithinInterval", <<d, i>>,
                      isWithinInterval(CallerHeap, d, i))

GetDaysInMonth ==
    /\ op = "none"
    /\ \E d \in Held \cup NotDates \cup GridDates :
        /\ ~requiredArgs(1, Len(<<d>>))
        /\ Return("getDaysInMonth", <<d>>, getDaysInMonth(CallerHeap, d))

StartOfMonth ==
    /\ op = "none"
    /\ \E d \in Held \cup NotDates \cup GridDates :
        /\ ~requiredArgs(1, Len(<<d>>))
        /\ Return("startOfMonth", <<d>>, startOfMonth(CallerHeap, d))

EndOfMonth ==
    /\ op = "none"
    /\ \E d \in Held \cup NotDates \cup GridDates :
        /\ ~requiredArgs(1, Len(<<d>>))
        /\ Return("endOfMonth", <<d>>, endOfMonth(CallerHeap, d))

AddMonths ==
    /\ op = "none"
    /\ \E c \in ((Held \cup NotDates) \X Amounts) \cup (GridDates \X GridAmounts) :
        /\ ~requiredArgs(2, Len(c))
        /\ Return("addMonths", c, addMonths(CallerHeap, c[1], c[2]))

\* toInteger applied on its own to each amount
ToInteger ==
    /\ op = "none"
    /\ \E x \in Amounts :
        Return("toInteger", <<x>>, [h |-> CallerHeap, v |-> NumVal(toInteger(x))])

\* the caller drops the result; the objects the call created are garbage
Release ==
    /\ op # "none"
    /\ heap' = CallerHeap
    /\ op' = "none"
    /\ args' = <<>>
    /\ ret' = Undefined
    /\ UNCHANGED zone

Next ==
    \/ DifferenceInMilliseconds
    \/ DifferenceInMinutes
    \/ IsWithinInterval
    \/ GetDaysInMonth
    \/ StartOfMonth
    \/ EndOfMonth
    \/ AddMonths
    \/ ToInteger
    \/ Release

Spec == Init /\ [][Next]_vars

----------------------------------------------------------------------------
(* What the claims speak of *)

\* the time value toDate gives argument a of the last call
InTime(a) ==
    IF a.t = "Date" THEN heap[a.ref]
    ELSE IF a.t = "number" THEN TimeClip(a.time)
    ELSE NaNTime

Valid(t) == ~t.nan
Min(a, b) == IF a <= b THEN a ELSE b

\* the Gregorian length of month m (0 = January) of year y
GregorianLength(y, m) ==
    IF m \in {0, 2, 4, 6, 7, 9, 11} THEN 31
    ELSE IF m \in {3, 5, 8, 10} THEN 30
    ELSE IF y % 4 = 0 /\ (y % 100 # 0 \/ y % 400 = 0) THEN 29
    ELSE 28

\* year * 12 + month of a valid time value, in local time
MonthIndex(t) == getFullYear(t).n * 12 + getMonth(t).n

\* milliseconds since local midnight of a valid time value
LocalMs(t) == LocalTime(t).ms

\* a before b, on valid time values
Before(a, b) == a.day < b.day \/ (a.day = b.day /\ a.ms < b.ms)

\* a - b in milliseconds, on valid time values
EpochDiff(a, b) == (a.day - b.day) * 86400000 + a.ms - b.ms

\* x / c truncated toward zero
TruncDiv(x, c) == IF x >= 0 THEN x \div c ELSE -((-x) \div c)

\* the amount is a non-zero integer number
IntegerAmount(v) ==
    v.t = "number" /\ v.num.k = "fin" /\ v.num.d = 1 /\ v.num.n # 0

\* the amount is a number strictly between -1 and 1
ZeroAmount(v) ==
    v.t = "number" /\ v.num.k = "fin" /\ -v.num.d < v.num.n /\ v.num.n < v.num.d

----------------------------------------------------------------------------
(* The claims *)

\* C1: for a valid date d and a non-zero integer amount n, addMonths(d, n)
\* returns a date whose year * 12 + month is that of d plus n and whose day
\* of the month is the smaller of d's day and the length of the target month.
C1_AddMonthsClamps ==
    (op = "addMonths" /\ Valid(InTime(args[1])) /\ IntegerAmount(args[2])) =>
        /\ ret.t = "Date"
        /\ Valid(heap[ret.ref])
        /\ MonthIndex(heap[ret.ref]) = MonthIndex(InTime(args[1])) + args[2].num.n
        /\ getDate(heap[ret.ref]).n =
              Min(getDate(InTime(args[1])).n,
                  GregorianLength(getFullYear(heap[ret.ref]).n,
                                  getMonth(heap[ret.ref]).n))

\* 31 January 1999 plus 13 months is 29 February 2000
C1_Witness ==
    /\ op = "addMonths"
    /\ Valid(InTime(args[1]))
    /\ args[2] = NumVal(Fin(13))
    /\ getFullYear(InTime(args[1])) = Fin(1999)
    /\ getMonth(InTime(args[1])) = Fin(0)
    /\ getDate(InTime(args[1])) = Fin(31)
    /\ getFullYear(heap[ret.ref]) = Fin(2000)
    /\ getMonth(heap[ret.ref]) = Fin(1)
    /\ getDate(heap[ret.ref]) = Fin(29)

\* C2: for a valid date d and an amount that coerces to zero (0 or a fraction
\* strictly between -1 and 1), addMonths returns a date with d's time value.
C2_ZeroAmountIsNoOp ==
    (op = "addMonths" /\ Valid(InTime(args[1])) /\ ZeroAmount(args[2])) =>
        /\ ret.t = "Date"
        /\ heap[ret.ref] = InTime(args[1])

\* the second 02:30 of a day that ends daylight saving time, which setting
\* the date's own fields again would turn into the first; amount -999/1000
C2_Witness ==
    /\ op = "addMonths"
    /\ Valid(InTime(args[1]))
    /\ args[2] = NumVal(Frac(-999, 1000))
    /\ zone.dst
    /\ UTC(LocalTime(InTime(args[1]))) # InTime(args[1])
    /\ heap[ret.ref] = InTime(args[1])

\* the time values of the interval's ends; a missing interval has none
StartOf(i) == IF i.t = "object" THEN InTime(i.start) ELSE NaNTime
EndOf(i) == IF i.t = "object" THEN InTime(i.end) ELSE NaNTime

\* C3: isWithinInterval throws the RangeError exactly when start is after
\* end or an end of the interval is an invalid date, and returns a boolean
\* otherwise; an invalid date with a valid interval gives false.
C3_InvalidIntervalThrows ==
    (op = "isWithinInterval") =>
        LET s == StartOf(args[2])
            e == EndOf(args[2])
        IN  /\ (ret.t = "throw") <=> (~Valid(s) \/ ~Valid(e) \/ Before(e, s))
            /\ ret.t = "throw" => ret.err = "RangeError"
            /\ ret.t # "throw" => ret.t = "boolean"
            /\ (~Valid(InTime(args[1])) /\ ret.t # "throw") => ret.b = FALSE

\* a valid date, a valid start and an invalid end: the call throws
C3_Witness ==
    /\ op = "isWithinInterval"
    /\ args[2].t = "object"
    /\ Valid(InTime(args[1]))
    /\ Valid(StartOf(args[2]))
    /\ ~Valid(EndOf(args[2]))
    /\ ret.t = "throw"

\* C4: with valid start <= end and a valid date, isWithinInterval returns
\* true exactly when start <= date <= end, both ends included.
C4_InclusiveMembership ==
    (/\ op = "isWithinInterval"
     /\ Valid(InTime(args[1]))
     /\ Valid(StartOf(args[2]))
     /\ Valid(EndOf(args[2]))
     /\ ~Before(EndOf(args[2]), StartOf(args[2]))) =>
        /\ ret.t = "boolean"
        /\ ret.b <=> (/\ ~Before(InTime(args[1]), StartOf(args[2]))
                      /\ ~Before(EndOf(args[2]), InTime(args[1])))

\* the date is the end of an interval that starts a millisecond earlier
C4_Witness ==
    /\ op = "isWithinInterval"
    /\ Valid(InTime(args[1]))
    /\ Valid(StartOf(args[2]))
    /\ EndOf(args[2]) = InTime(args[1])
    /\ EpochDiff(EndOf(args[2]), StartOf(args[2])) = 1
    /\ ret = Bool(TRUE)

\* the input is null, absent or a boolean
NoNumber(v) == v.t \in {"null", "undefined", "boolean"}

\* C5 as claimed: toInteger returns NaN for a boolean, null or absent input
\* and whenever the numeric conversion is not finite (NaN or an infinity),
\* never throws, and returns a finite integer only for a finite conversion.
C5_NonFiniteGivesNaN ==
    (op = "toInteger") =>
        /\ ret.t = "number"
        /\ (NoNumber(args[1]) \/ ~IsFinite(ToNumber(args[1]))) => isNaN(ret.num)
        /\ IsFinite(ret.num) =>
              (~NoNumber(args[1]) /\ IsFinite(ToNumber(args[1])) /\ ret.num.d = 1)

\* C5 as amended: toInteger returns NaN for a boolean, null or absent input
\* and whenever the numeric conversion is NaN; an infinite conversion is
\* returned as it is; it never throws, and it returns a finite integer only
\* for a finite conversion.
C5_NaNGivesNaN ==
    (op = "toInteger") =>
        /\ ret.t = "number"
        /\ (NoNumber(args[1]) \/ isNaN(ToNumber(args[1]))) => isNaN(ret.num)
        /\ (~NoNumber(args[1]) /\ ToNumber(args[1]) \in {PInf, NInf}) =>
              ret.num = ToNumber(args[1])
        /\ IsFinite(ret.num) =>
              (~NoNumber(args[1]) /\ IsFinite(ToNumber(args[1])) /\ ret.num.d = 1)

\* toInteger(-Infinity) is -Infinity
C5_Witness ==
    /\ op = "toInteger"
    /\ args[1] = NumVal(NInf)
    /\ ret = NumVal(NInf)

\* C6: for valid a and b, differenceInMinutes(a, b) is (a - b) / 60000
\* truncated toward zero, 0 when they are less than a minute apart, and the
\* negation of differenceInMinutes(b, a).
C6_MinutesTruncate ==
    (/\ op = "differenceInMinutes"
     /\ Valid(InTime(args[1]))
     /\ Valid(InTime(args[2]))) =>
        LET ms == EpochDiff(InTime(args[1]), InTime(args[2]))
        IN  /\ ret.t = "number"
            /\ ret.num = Fin(TruncDiv(ms, 60000))
            /\ (-60000 < ms /\ ms < 60000) => ret.num = Fin(0)
            /\ differenceInMinutes(CallerHeap, args[2], args[1]).v.num
                  = Fin(-ret.num.n)

\* 10:00:00 against 10:01:59 of the same day is -1
C6_Witness ==
    /\ op = "differenceInMinutes"
    /\ Valid(InTime(args[1]))
    /\ Valid(InTime(args[2]))
    /\ EpochDiff(InTime(args[1]), InTime(args[2])) = -119000
    /\ ret = NumVal(Fin(-1))

\* the amount is one toInteger makes NaN
NaNAmount(v) == NoNumber(v) \/ isNaN(ToNumber(v))

\* C7: addMonths, startOfMonth and endOfMonth of an invalid date return an
\* invalid date whatever the amount, addMonths of a valid date and an amount
\* that coerces to NaN returns an invalid date, the difference functions
\* return NaN when an argument is invalid, and none of them throws.
C7_InvalidityPropagates ==
    /\ (op \in {"addMonths", "startOfMonth", "endOfMonth"}
            /\ ~Valid(InTime(args[1]))) =>
          (ret.t = "Date" /\ ~Valid(heap[ret.ref]))
    /\ (op = "addMonths" /\ NaNAmount(args[2])) =>
          (ret.t = "Date" /\ ~Valid(heap[ret.ref]))
    /\ (op \in {"differenceInMilliseconds", "differenceInMinutes"}
            /\ (~Valid(InTime(args[1])) \/ ~Valid(InTime(args[2])))) =>
          (ret.t = "number" /\ isNaN(ret.num))

\* an invalid Date object plus 5 months: the day-setting branch is taken
C7_Witness ==
    /\ op = "addMonths"
    /\ args[1].t = "Date"
    /\ ~Valid(InTime(args[1]))
    /\ args[2] = NumVal(Fin(5))
    /\ ret = DateRef(NCaller + 1)
    /\ Len(heap) = NCaller + 2
    /\ ~Valid(heap[ret.ref])

\* C8: for a valid date d, getDaysInMonth(d) is the Gregorian length of d's
\* month in d's year.
C8_DaysInMonth ==
    (op = "getDaysInMonth" /\ Valid(InTime(args[1]))) =>
        /\ ret.t = "number"
        /\ ret.num = Fin(GregorianLength(getFullYear(InTime(args[1])).n,
                                         getMonth(InTime(args[1])).n))

\* a date in December, whose following month is in the next year
C8_Witness ==
    /\ op = "getDaysInMonth"
    /\ Valid(InTime(args[1]))
    /\ getMonth(InTime(args[1])) = Fin(11)
    /\ getDate(InTime(args[1])) = Fin(31)
    /\ ret = NumVal(Fin(31))

\* C9: for a valid date d, endOfMonth(d) is the last day of d's month and
\* year at 23:59:59.999, and startOfMonth of it is day 1 of d's month and
\* year at 00:00:00.000, the value of startOfMonth(d).
C9_MonthRoundTrip ==
    (op = "endOfMonth" /\ Valid(InTime(args[1]))) =>
        LET d == InTime(args[1])
            e == heap[ret.ref]
            s == startOfMonth(heap, ret)
            st == s.h[s.v.ref]
            sd == startOfMonth(CallerHeap, args[1])
        IN  /\ Valid(e)
            /\ MonthIndex(e) = MonthIndex(d)
            /\ getFullYear(e) = getFullYear(d)
            /\ getDate(e).n = GregorianLength(getFullYear(d).n, getMonth(d).n)
            /\ LocalMs(e) = 86399999
            /\ Valid(st)
            /\ getFullYear(st) = getFullYear(d)
            /\ getMonth(st) = getMonth(d)
            /\ getDate(st) = Fin(1)
            /\ LocalMs(st) = 0
            /\ st = sd.h[sd.v.ref]

\* 31 December at 23:59:59.999: the end of its month is the date itself
C9_Witness ==
    /\ op = "endOfMonth"
    /\ Valid(InTime(args[1]))
    /\ getMonth(InTime(args[1])) = Fin(11)
    /\ getDate(InTime(args[1])) = Fin(31)
    /\ LocalMs(InTime(args[1])) = 86399999
    /\ heap[ret.ref] = InTime(args[1])

\* C10: the Date objects the caller holds keep their time values through
\* every call, and a Date an operation returns is none of them.
C10_CallerDatesUntouched ==
    /\ \A i \in 1..NCaller : heap[i] = CallerDate(i)
    /\ ret.t = "Date" => ret.ref \notin 1..NCaller

\* startOfMonth of a held Date: the result differs, the held Date does not
C10_Witness ==
    /\ op = "startOfMonth"
    /\ args[1] = DateRef(1)
    /\ ret.t = "Date"
    /\ ret.ref # 1
    /\ heap[1] = CallerDate(1)
    /\ heap[ret.ref] # heap[1]

====
